---- MODULE Spec2Model ----
(***************************************************************************)
(* Wallet ledger of the NovAlgo investment platform.                       *)
(*                                                                         *)
(* The database side is the schema, the row-level security policies and    *)
(* the triggers of supabase/migrations; the client side is the pages that  *)
(* read and write the ledger tables: Dashboard, Referrals, Deposit and     *)
(* Withdraw.  Every awaited database call of a page is one atomic step     *)
(* (one SQL statement, its AFTER triggers included); other sessions may    *)
(* act between two awaits.                                                 *)
(*                                                                         *)
(* Amounts are whole shillings (DECIMAL(15,2) values without cents).       *)
(***************************************************************************)
EXTENDS Integers, Sequences, FiniteSets, TLC

\* ------------------------------------------------------------------ bounds
Users == {"u1", "u2"}
\* users with open browser pages (the others are written by inserts only)
ClientUsers == {"u1"}
\* identities that try to register in the provisioning specification
Registrants == Users \cup {"u3"}
MaxTx == 3
MaxInv == 2
\* rows of deposits, of withdrawals and of referrals
MaxReq == 2
\* rows of each kind next to the statements of a session
MaxRows == 1
Amounts == {0, 10000}
\* amounts of the inserts that run next to the pages
PageAmounts == {10000}
\* values that a caller sends as balance_before and balance_after
Snapshots == {0, 10000}

NULL == "null"
\* A nullable row (React state `WalletData | null`): <<>> or <<row>>.
Null == <<>>
Some(row) == <<row>>

\* ------------------------------------------------------------------ schema
\* CREATE TYPE public.transaction_type AS ENUM (...): the five values that
\* the column transactions.type accepts.
transaction_type ==
  {"deposit", "withdrawal", "investment", "profit", "referral_commission"}

\* Enums.transaction_type of the generated client types: six kinds, the
\* values that the TypeScript sources may send as type.
TransactionTypes ==
  {"deposit", "withdrawal", "investment", "profit", "referral_commission",
   "referral_bonus_transfer"}

\* investment_packages rows inserted by the first migration.
PackageIds == {"lite", "pro", "elite"}
DefaultMultiplier == 3
DefaultDurationDays == 365
Packages ==
  [p \in PackageIds |->
     [id |-> p,
      minimum_amount |-> CASE p = "lite" -> 10000
                           [] p = "pro" -> 30000
                           [] OTHER -> 50000,
      multiplier |-> DefaultMultiplier,
      duration_days |-> DefaultDurationDays]]

\* The four balance columns of wallets.
BalanceFields ==
  {"main_balance", "referral_bonus_balance", "total_invested", "total_profits"}

\* wallets row as created by INSERT INTO wallets (user_id): column defaults.
NewWallet ==
  [main_balance |-> 0, referral_bonus_balance |-> 0,
   total_invested |-> 0, total_profits |-> 0]

\* CREATE POLICY statements of the first migration, as <<table, command>>.
\* Every one of them but the investment_packages policy tests
\* auth.uid() = user_id (referrals: referrer_id or referred_id).
MigrationPolicies_TransactionsInsertable ==
  {<<"profiles", "SELECT">>, <<"profiles", "UPDATE">>, <<"profiles", "INSERT">>,
   <<"wallets", "SELECT">>, <<"wallets", "UPDATE">>, <<"wallets", "INSERT">>,
   <<"deposits", "SELECT">>, <<"deposits", "INSERT">>,
   <<"withdrawals", "SELECT">>, <<"withdrawals", "INSERT">>,
   <<"investments", "SELECT">>, <<"investments", "INSERT">>,
   <<"transactions", "SELECT">>, <<"transactions", "INSERT">>,
   <<"referrals", "SELECT">>,
   <<"investment_packages", "SELECT">>}

MigrationPolicies ==
  {<<"profiles", "SELECT">>, <<"profiles", "UPDATE">>, <<"profiles", "INSERT">>,
   <<"wallets", "SELECT">>, <<"wallets", "UPDATE">>, <<"wallets", "INSERT">>,
   <<"deposits", "SELECT">>, <<"deposits", "INSERT">>,
   <<"withdrawals", "SELECT">>, <<"withdrawals", "INSERT">>,
   <<"investments", "SELECT">>, <<"investments", "INSERT">>,
   <<"transactions", "SELECT">>,
   <<"referrals", "SELECT">>,
   <<"investment_packages", "SELECT">>}

VARIABLES
  policies,      \* row-level security policies in force
  authUsers,     \* auth.users: ids of the registered users
  profiles,      \* public.profiles, by user_id
  wallets,       \* public.wallets, by user_id
  transactions,  \* public.transactions, in insertion order
  investments,   \* public.investments, in insertion order
  dashWallet,    \* Dashboard: walletData state of each user's page
  dashPc,        \* Dashboard: position of handleInvest
  dashPkg,       \* Dashboard: packageData argument of the running handleInvest
  dashInv,       \* Dashboard: id of the investment row returned by the insert
  refWallet,     \* Referrals: walletData state of each user's page
  refPc,         \* Referrals: position of transferReferralBonus
  last,          \* the last operation and its outcome
  packages,      \* public.investment_packages, by package_type
  deposits,      \* public.deposits, in insertion order
  withdrawals,   \* public.withdrawals, in insertion order
  referrals,     \* public.referrals, in insertion order
  wdWallet,      \* Withdraw: walletData state of each user's page
  wdPc,          \* Withdraw: position of handleWithdraw
  issued         \* ids drawn so far from the id default of each table

db == <<authUsers, profiles, wallets, transactions, investments>>
dash == <<dashWallet, dashPc, dashPkg, dashInv>>
refp == <<refWallet, refPc>>
reqs == <<deposits, withdrawals, wdWallet, wdPc>>
adm == <<packages, referrals>>
vars == <<policies, db, dash, refp, last, reqs, adm, issued>>

\* --------------------------------------------------------------- operators
\* Row-level security: a statement of `caller` on a row owned by `owner`.
RlsAllows_NoOwnerTest(table, cmd, caller, owner) ==
  <<table, cmd>> \in policies

RlsAllows(table, cmd, caller, owner) ==
  /\ <<table, cmd>> \in policies
  /\ (table = "investment_packages" \/ caller = owner)

\* update_wallet_balance(): the wallet row of NEW.user_id after the trigger.
update_wallet_balance_Floor(w, type, amount) ==
  CASE type = "deposit" ->
         [w EXCEPT !.main_balance = @ + amount]
    [] type = "withdrawal" ->
         [w EXCEPT !.main_balance = IF @ < amount THEN 0 ELSE @ - amount]
    [] type = "investment" ->
         [w EXCEPT !.main_balance = IF @ < amount THEN 0 ELSE @ - amount,
                   !.total_invested = @ + amount]
    [] type = "profit" ->
         [w EXCEPT !.main_balance = @ + amount,
                   !.total_profits = @ + amount]
    [] type = "referral_commission" ->
         [w EXCEPT !.referral_bonus_balance = @ + amount]
    [] OTHER -> w

update_wallet_balance(w, type, amount) ==
  CASE type = "deposit" ->
         [w EXCEPT !.main_balance = @ + amount]
    [] type = "withdrawal" ->
         [w EXCEPT !.main_balance = @ - amount]
    [] type = "investment" ->
         [w EXCEPT !.main_balance = @ - amount,
                   !.total_invested = @ + amount]
    [] type = "profit" ->
         [w EXCEPT !.main_balance = @ + amount,
                   !.total_profits = @ + amount]
    [] type = "referral_commission" ->
         [w EXCEPT !.referral_bonus_balance = @ + amount]
    [] OTHER -> w

\* id UUID DEFAULT gen_random_uuid(): an id that no row of the table has or
\* ever had.  The ids of a table are numbered in the order in which they
\* are drawn; the id of a removed row is not drawn again.
IdTables == {"transactions", "investments", "deposits", "withdrawals"}

NextId(table) == issued[table] + 1

\* The statement has stored a row: its id has been drawn.
Grown(rows, rowsNext) == IF Len(rowsNext) > Len(rows) THEN 1 ELSE 0

IssueIds ==
  issued' =
    [transactions |-> issued.transactions + Grown(transactions, transactions'),
     investments |-> issued.investments + Grown(investments, investments'),
     deposits |-> issued.deposits + Grown(deposits, deposits'),
     withdrawals |-> issued.withdrawals + Grown(withdrawals, withdrawals')]

\* A transactions row: type, amount, reference_id, balance_before and
\* balance_after are the values of the INSERT statement (NOT NULL columns
\* without a default; no trigger computes them).
TxRow(u, type, amount, ref, before, after) ==
  [id |-> NextId("transactions"), user_id |-> u, type |-> type,
   amount |-> amount, reference_id |-> ref,
   balance_before |-> before, balance_after |-> after]

\* The trigger without its UPDATE statements: the row alone is stored.
on_transaction_created_NoTrigger(row) ==
  /\ transactions' = Append(transactions, row)
  /\ wallets' = wallets

\* The trigger's UPDATE without WHERE user_id = NEW.user_id.
on_transaction_created_AllWallets(row) ==
  /\ transactions' = Append(transactions, row)
  /\ wallets' = [x \in DOMAIN wallets |->
                   update_wallet_balance(wallets[x], row.type, row.amount)]

\* INSERT INTO transactions followed by the on_transaction_created trigger,
\* one statement.  The trigger's UPDATE ... WHERE user_id = NEW.user_id
\* touches the wallet of that user only (no row: nothing is updated).
on_transaction_created(row) ==
  /\ transactions' = Append(transactions, row)
  /\ wallets' =
       IF row.user_id \in DOMAIN wallets
       THEN [wallets EXCEPT ![row.user_id] =
               update_wallet_balance(@, row.type, row.amount)]
       ELSE wallets

Outcome(op, u, type, amount, result) ==
  [op |-> op, user |-> u, type |-> type, amount |-> amount, result |-> result]

\* -------------------------------------------------------------------- Init
\* The schema that the two migrations build, with its tables empty but for
\* the three packages, and the pages as their components are constructed:
\* Dashboard and Referrals with loading = true (the spinner, until the
\* fetch of the mount effect has ended), Withdraw with loading = false, and
\* walletData = null on each.
Init ==
  /\ policies = MigrationPolicies
  /\ authUsers = {}
  /\ profiles = <<>>
  /\ wallets = <<>>
  /\ transactions = <<>>
  /\ investments = <<>>
  /\ dashWallet = [u \in Users |-> Null]
  /\ dashPc = [u \in Users |-> "refresh"]
  /\ dashPkg = [u \in Users |-> NULL]
  /\ dashInv = [u \in Users |-> 0]
  /\ refWallet = [u \in Users |-> Null]
  /\ refPc = [u \in Users |-> "refresh"]
  /\ last = Outcome("none", NULL, NULL, 0, "ok")
  /\ packages = Packages
  /\ deposits = <<>>
  /\ withdrawals = <<>>
  /\ referrals = <<>>
  /\ wdWallet = [u \in Users |-> Null]
  /\ wdPc = [u \in Users |-> "idle"]
  /\ issued = [t \in IdTables |-> 0]

\* ----------------------------------------------------------------- actions
\* auth.users.id of the model's users, and the first 8 of the 32 hex digits
\* of MD5(id::text).
Uuid(u) ==
  CASE u = "u1" -> "00000000-0000-4000-8000-0000000018a4"
    [] u = "u2" -> "00000000-0000-4000-8000-000000000002"
    [] OTHER    -> "00000000-0000-4000-8000-00000000198f"

MD5(id) ==
  CASE id = "00000000-0000-4000-8000-0000000018a4"
         -> <<"4", "a", "2", "2", "0", "7", "f", "5">>
    [] id = "00000000-0000-4000-8000-000000000002"
         -> <<"9", "9", "5", "3", "1", "6", "7", "b">>
    [] OTHER
         -> <<"4", "a", "2", "2", "0", "7", "8", "6">>

UPPER(hex) ==
  [i \in DOMAIN hex |->
     CASE hex[i] = "a" -> "A" [] hex[i] = "b" -> "B" [] hex[i] = "c" -> "C"
       [] hex[i] = "d" -> "D" [] hex[i] = "e" -> "E" [] hex[i] = "f" -> "F"
       [] OTHER -> hex[i]]

\* ref_code := 'NA' || UPPER(SUBSTRING(MD5(NEW.id::text), 1, 6))
ref_code(u) == <<"N", "A">> \o UPPER(SubSeq(MD5(Uuid(u)), 1, 6))

\* handle_new_user() without the INSERT INTO wallets.
SignUp_NoWallet(u) ==
  /\ u \notin authUsers
  /\ authUsers' = authUsers \cup {u}
  /\ profiles' = [x \in DOMAIN profiles \cup {u} |->
                    IF x = u THEN [user_id |-> u, full_name |-> "User",
                                  referral_code |-> ref_code(u)]
                    ELSE profiles[x]]
  /\ last' = Outcome("SignUp", u, NULL, 0, "ok")
  /\ UNCHANGED <<policies, reqs, adm, wallets, transactions, investments, dash, refp>>
  /\ UNCHANGED issued

\* handle_new_user() with the UNIQUE(user_id) constraints left out: the rows
\* of a user that registers again are written over.
SignUp_NoUniqueUser(u) ==
  /\ authUsers' = authUsers \cup {u}
  /\ profiles' = [x \in DOMAIN profiles \cup {u} |->
                    IF x = u THEN [user_id |-> u, full_name |-> "User",
                                  referral_code |-> ref_code(u)]
                    ELSE profiles[x]]
  /\ wallets' = [x \in DOMAIN wallets \cup {u} |->
                   IF x = u THEN NewWallet ELSE wallets[x]]
  /\ last' = Outcome("SignUp", u, NULL, 0, "ok")
  /\ UNCHANGED <<policies, reqs, adm, transactions, investments, dash, refp>>
  /\ UNCHANGED issued

\* on_auth_user_created / handle_new_user(): the auth.users insert, the
\* profile insert and the wallet insert are one statement; an exception of
\* either insert (UNIQUE(user_id), UNIQUE referral_code) aborts all of it.
SignUp(u) ==
  /\ IF u \in authUsers \/ u \in DOMAIN profiles \/ u \in DOMAIN wallets
     THEN /\ last' = Outcome("SignUp", u, NULL, 0, "duplicate_user_id")
          /\ UNCHANGED <<authUsers, profiles, wallets>>
     ELSE IF \E x \in DOMAIN profiles : profiles[x].referral_code = ref_code(u)
     THEN /\ last' = Outcome("SignUp", u, NULL, 0, "duplicate_referral_code")
          /\ UNCHANGED <<authUsers, profiles, wallets>>
     ELSE /\ authUsers' = authUsers \cup {u}
          /\ profiles' = [x \in DOMAIN profiles \cup {u} |->
                            IF x = u
                            THEN [user_id |-> u, full_name |-> "User",
                                  referral_code |-> ref_code(u)]
                            ELSE profiles[x]]
          /\ wallets' = [x \in DOMAIN wallets \cup {u} |->
                           IF x = u THEN NewWallet ELSE wallets[x]]
          /\ last' = Outcome("SignUp", u, NULL, 0, "ok")
  /\ UNCHANGED <<policies, reqs, adm, transactions, investments, dash, refp>>
  /\ UNCHANGED issued

\* InsertTransaction without the REFERENCES auth.users(id) check on user_id.
InsertTransaction_NoForeignKey(u, type, amount, before, after) ==
  /\ issued.transactions < MaxTx
  /\ type \in TransactionTypes
  /\ IF type \notin transaction_type
     THEN /\ UNCHANGED <<transactions, wallets>>
          /\ last' = Outcome("InsertTransaction", u, type, amount,
                             "invalid_input_value")
     ELSE /\ on_transaction_created(TxRow(u, type, amount, 0, before, after))
          /\ last' = Outcome("InsertTransaction", u, type, amount, "ok")
  /\ UNCHANGED <<policies, reqs, adm, authUsers, profiles, investments, dash, refp>>
  /\ IssueIds

\* A transactions row inserted outside the pages (service role, which
\* row-level security does not restrict), with the caller's values of
\* balance_before and balance_after: the type must be a value of the enum
\* (else 22P02 invalid input value), user_id must reference a user, then the
\* trigger runs.
InsertTransaction(u, type, amount, before, after) ==
  /\ issued.transactions < MaxTx
  /\ type \in TransactionTypes
  /\ IF type \notin transaction_type
     THEN /\ UNCHANGED <<transactions, wallets>>
          /\ last' = Outcome("InsertTransaction", u, type, amount,
                             "invalid_input_value")
     ELSE IF u \in authUsers
     THEN /\ on_transaction_created(TxRow(u, type, amount, 0, before, after))
          /\ last' = Outcome("InsertTransaction", u, type, amount, "ok")
     ELSE /\ UNCHANGED <<transactions, wallets>>
          /\ last' = Outcome("InsertTransaction", u, NULL, 0,
                             "foreign_key_violation")
  /\ UNCHANGED <<policies, reqs, adm, authUsers, profiles, investments, dash, refp>>
  /\ IssueIds

\* The values of balance_before and balance_after of a caller that sends the
\* main_balance the wallets table holds and the one the trigger leaves.
StoredBefore(u) ==
  IF u \in DOMAIN wallets THEN wallets[u].main_balance ELSE 0

StoredAfter(u, type, amount) ==
  IF u \in DOMAIN wallets
  THEN update_wallet_balance(wallets[u], type, amount).main_balance
  ELSE 0

\* ---------------------------------------------------------------- Dashboard
\* fetchDashboardData() is called by the mount effect and awaited by
\* handleInvest after its wallets update; the page shows the spinner
\* (loading) until it has ended.  A fetch that starts on an idle page is the
\* page loaded again: its component is constructed with walletData = null.
\* The first awaited SELECT: * FROM wallets WHERE user_id = uid, single().
\* ok = FALSE: the request returned no row (if (wallet) is false) and the
\* page keeps what it holds.
FetchDashboardWallet(u, ok) ==
  /\ u \in authUsers
  /\ dashPc[u] \in {"idle", "refresh"}
  /\ LET held == IF dashPc[u] = "idle" THEN Null ELSE dashWallet[u]
     IN dashWallet' =
          [dashWallet EXCEPT ![u] =
             IF ok /\ RlsAllows("wallets", "SELECT", u, u)
             THEN Some(wallets[u]) ELSE held]
  /\ dashPc' = [dashPc EXCEPT ![u] = "lists"]
  /\ UNCHANGED <<policies, reqs, adm, db, dashPkg, dashInv, refp, last>>
  /\ UNCHANGED issued

\* fetchDashboardData(), the awaited SELECTs of investment_packages, of the
\* user's investments and of the user's transactions, whose results are the
\* lists of the page, then setLoading(false): the page is usable.
FetchDashboardLists(u) ==
  /\ dashPc[u] = "lists"
  /\ dashPc' = [dashPc EXCEPT ![u] = "idle"]
  /\ UNCHANGED <<policies, reqs, adm, db, dashWallet, dashPkg, dashInv, refp, last>>
  /\ UNCHANGED issued

\* walletData?.field || 0
OrZero(w, field) == IF w = Null THEN 0 ELSE w[1][field]

canInvest(walletData, packageData) ==
  IF walletData = Null THEN FALSE
  ELSE walletData[1].main_balance >= packageData.minimum_amount

\* handleInvest, up to and including the awaited investments insert.
HandleInvest(u, p) ==
  /\ u \in authUsers
  /\ dashPc[u] = "idle"
  /\ IF ~canInvest(dashWallet[u], packages[p])
     THEN /\ last' = Outcome("handleInvest", u, NULL, 0, "Insufficient Balance")
          /\ UNCHANGED <<investments, dash>>
     ELSE /\ issued.investments < MaxInv
          /\ issued.transactions < MaxTx
          /\ IF RlsAllows("investments", "INSERT", u, u)
             THEN /\ investments' = Append(investments,
                       [id |-> NextId("investments"),
                        user_id |-> u,
                        package_id |-> p,
                        amount |-> packages[p].minimum_amount,
                        expected_return |->
                          packages[p].minimum_amount * packages[p].multiplier,
                        end_days |-> 365,
                        status |-> "active"])
                  /\ dashPc' = [dashPc EXCEPT ![u] = "transaction"]
                  /\ dashPkg' = [dashPkg EXCEPT ![u] = p]
                  /\ dashInv' = [dashInv EXCEPT ![u] = NextId("investments")]
                  /\ last' = Outcome("handleInvest", u, NULL,
                                     packages[p].minimum_amount, "investment created")
                  /\ UNCHANGED dashWallet
             ELSE /\ last' = Outcome("handleInvest", u, NULL,
                                     packages[p].minimum_amount, "Investment Failed")
                  /\ UNCHANGED <<investments, dash>>
  /\ UNCHANGED <<policies, reqs, adm, authUsers, profiles, wallets, transactions, refp>>
  /\ IssueIds

\* handleInvest: the awaited transactions insert (the trigger runs in it).
\* An error (row-level security) is thrown, caught ("Investment Failed") and
\* ends the handler; the investments row stays.
InvestInsertTransaction(u) ==
  /\ dashPc[u] = "transaction"
  /\ LET pkg == packages[dashPkg[u]]
         before == OrZero(dashWallet[u], "main_balance")
     IN IF RlsAllows("transactions", "INSERT", u, u)
        THEN /\ on_transaction_created(
                  TxRow(u, "investment", pkg.minimum_amount, dashInv[u],
                        before, before - pkg.minimum_amount))
             /\ dashPc' = [dashPc EXCEPT ![u] = "wallet"]
             /\ last' = Outcome("handleInvest", u, "investment",
                                pkg.minimum_amount, "transaction created")
             /\ UNCHANGED <<dashPkg, dashInv>>
        ELSE /\ dashPc' = [dashPc EXCEPT ![u] = "idle"]
             /\ dashPkg' = [dashPkg EXCEPT ![u] = NULL]
             /\ dashInv' = [dashInv EXCEPT ![u] = 0]
             /\ last' = Outcome("handleInvest", u, "investment",
                                pkg.minimum_amount, "Investment Failed")
             /\ UNCHANGED <<transactions, wallets>>
  /\ UNCHANGED <<policies, reqs, adm, authUsers, profiles, investments, dashWallet, refp>>
  /\ IssueIds

\* handleInvest: the awaited wallets update, then the toast.  ok = FALSE:
\* the update returned an error, which is caught and ends the handler.  An
\* update that row-level security does not admit changes no row and returns
\* no error.  After the toast the handler awaits fetchDashboardData(): the
\* page keeps its copy and shows the spinner until that fetch has ended.
\* The statement follows the transactions insert, which the policies of the
\* migration refuse: no behaviour of the specifications below takes this
\* step.
InvestUpdateWallet(u, ok) ==
  /\ dashPc[u] = "wallet"
  /\ LET pkg == packages[dashPkg[u]]
         updated ==
           [wallets[u] EXCEPT
              !.main_balance =
                 OrZero(dashWallet[u], "main_balance") - pkg.minimum_amount,
              !.total_invested =
                 OrZero(dashWallet[u], "total_invested") + pkg.minimum_amount]
     IN IF ok
        THEN /\ wallets' = IF RlsAllows("wallets", "UPDATE", u, u)
                           THEN [wallets EXCEPT ![u] = updated]
                           ELSE wallets
             /\ last' = Outcome("handleInvest", u, "investment",
                                pkg.minimum_amount, "Investment Successful!")
        ELSE /\ last' = Outcome("handleInvest", u, "investment",
                                pkg.minimum_amount, "Investment Failed")
             /\ UNCHANGED wallets
  /\ UNCHANGED dashWallet
  /\ dashPc' = [dashPc EXCEPT ![u] = IF ok THEN "refresh" ELSE "idle"]
  /\ dashPkg' = [dashPkg EXCEPT ![u] = NULL]
  /\ dashInv' = [dashInv EXCEPT ![u] = 0]
  /\ UNCHANGED <<policies, reqs, adm, authUsers, profiles, transactions, investments, refp>>
  /\ UNCHANGED issued

\* ---------------------------------------------------------------- Referrals
\* fetchReferralData(): SELECT referral_bonus_balance, main_balance.
ReferralWallet(w) ==
  [referral_bonus_balance |-> w.referral_bonus_balance,
   main_balance |-> w.main_balance]

\* fetchReferralData() is called by the mount effect and awaited by
\* transferReferralBonus after its wallets update; the page shows the
\* spinner (loading) or keeps the button disabled (isTransferring) until it
\* has ended.  A fetch that starts on an idle page is the page loaded again:
\* its component is constructed with walletData = null.  An error of a
\* SELECT is thrown: toast "Error", and the later SELECTs are not sent.
\* The first awaited SELECT: id, referral_code, full_name FROM profiles.
FetchReferralProfile(u, ok) ==
  /\ u \in authUsers
  /\ refPc[u] \in {"idle", "refresh"}
  /\ refWallet' = [refWallet EXCEPT ![u] =
                     IF refPc[u] = "idle" THEN Null ELSE @]
  /\ IF ok /\ RlsAllows("profiles", "SELECT", u, u)
     THEN /\ refPc' = [refPc EXCEPT ![u] = "fetch_wallet"]
          /\ UNCHANGED last
     ELSE /\ refPc' = [refPc EXCEPT ![u] = "idle"]
          /\ last' = Outcome("fetchReferralData", u, NULL, 0, "Error")
  /\ UNCHANGED <<policies, reqs, adm, db, dash>>
  /\ UNCHANGED issued

\* The second awaited SELECT: referral_bonus_balance, main_balance FROM
\* wallets, single(), then setWalletData(wallet).
FetchReferralWallet(u, ok) ==
  /\ refPc[u] = "fetch_wallet"
  /\ IF ok /\ RlsAllows("wallets", "SELECT", u, u)
     THEN /\ refWallet' =
               [refWallet EXCEPT ![u] = Some(ReferralWallet(wallets[u]))]
          /\ refPc' = [refPc EXCEPT ![u] = "fetch_referrals"]
          /\ UNCHANGED last
     ELSE /\ refPc' = [refPc EXCEPT ![u] = "idle"]
          /\ last' = Outcome("fetchReferralData", u, NULL, 0, "Error")
          /\ UNCHANGED refWallet
  /\ UNCHANGED <<policies, reqs, adm, db, dash>>
  /\ UNCHANGED issued

\* The third awaited SELECT: the referrals rows of the referrer, then
\* setLoading(false).  An error is thrown after the wallet copy was stored.
FetchReferralList(u, ok) ==
  /\ refPc[u] = "fetch_referrals"
  /\ refPc' = [refPc EXCEPT ![u] = "idle"]
  /\ IF ok /\ RlsAllows("referrals", "SELECT", u, u)
     THEN UNCHANGED last
     ELSE last' = Outcome("fetchReferralData", u, NULL, 0, "Error")
  /\ UNCHANGED <<policies, reqs, adm, db, dash, refWallet>>
  /\ UNCHANGED issued

\* !walletData?.referral_bonus_balance || walletData.referral_bonus_balance <= 0
NoBonusAvailable(walletData) ==
  \/ walletData = Null
  \/ walletData[1].referral_bonus_balance = 0
  \/ walletData[1].referral_bonus_balance <= 0

\* transferReferralBonus, up to and including the awaited transactions insert
\* of type 'referral_bonus_transfer'.  An error (the type is no value of the
\* enum, row-level security) is thrown, caught ("Transfer Failed") and ends
\* the handler.
TransferReferralBonus(u) ==
  /\ u \in authUsers
  /\ refPc[u] = "idle"
  /\ IF NoBonusAvailable(refWallet[u])
     THEN /\ last' = Outcome("transferReferralBonus", u, NULL, 0,
                             "No Bonus Available")
          /\ UNCHANGED <<transactions, wallets, refPc>>
     ELSE /\ issued.transactions < MaxTx
          /\ IF /\ "referral_bonus_transfer" \in transaction_type
                /\ RlsAllows("transactions", "INSERT", u, u)
             THEN /\ on_transaction_created(
                       TxRow(u, "referral_bonus_transfer",
                             refWallet[u][1].referral_bonus_balance, 0,
                             refWallet[u][1].main_balance,
                             refWallet[u][1].main_balance
                               + refWallet[u][1].referral_bonus_balance))
                  /\ refPc' = [refPc EXCEPT ![u] = "wallet"]
                  /\ last' = Outcome("transferReferralBonus", u,
                                     "referral_bonus_transfer",
                                     refWallet[u][1].referral_bonus_balance,
                                     "transaction created")
             ELSE /\ last' = Outcome("transferReferralBonus", u,
                                     "referral_bonus_transfer",
                                     refWallet[u][1].referral_bonus_balance,
                                     "Transfer Failed")
                  /\ UNCHANGED <<transactions, wallets, refPc>>
  /\ UNCHANGED <<policies, reqs, adm, authUsers, profiles, investments, dash, refWallet>>
  /\ IssueIds

\* transferReferralBonus: the awaited wallets update, then the toast.
\* ok = FALSE: the update returned an error, which is caught.  An update
\* that row-level security does not admit changes no row and returns no
\* error.  After the toast the handler awaits fetchReferralData(): the page
\* keeps its copy and the button stays disabled until that fetch has ended.
\* The statement follows the transactions insert, which fails: no behaviour
\* of the specifications below takes this step.
TransferUpdateWallet(u, ok) ==
  /\ refPc[u] = "wallet"
  /\ LET updated ==
           [wallets[u] EXCEPT
              !.main_balance = refWallet[u][1].main_balance
                                 + refWallet[u][1].referral_bonus_balance,
              !.referral_bonus_balance = 0]
     IN IF ok
        THEN /\ wallets' = IF RlsAllows("wallets", "UPDATE", u, u)
                           THEN [wallets EXCEPT ![u] = updated]
                           ELSE wallets
             /\ last' = Outcome("transferReferralBonus", u,
                                "referral_bonus_transfer",
                                refWallet[u][1].referral_bonus_balance,
                                "Transfer Successful!")
        ELSE /\ last' = Outcome("transferReferralBonus", u,
                                "referral_bonus_transfer",
                                refWallet[u][1].referral_bonus_balance,
                                "Transfer Failed")
             /\ UNCHANGED wallets
  /\ UNCHANGED refWallet
  /\ refPc' = [refPc EXCEPT ![u] = IF ok THEN "refresh" ELSE "idle"]
  /\ UNCHANGED <<policies, reqs, adm, authUsers, profiles, transactions, investments, dash>>
  /\ UNCHANGED issued

\* ----------------------------------------------------- Deposit, Withdraw
\* Column values of the enums deposit_status and withdrawal_status.
DepositStatuses == {"pending", "confirmed", "rejected"}
WithdrawalStatuses == {"pending", "approved", "rejected"}

RequestRow(table, u, amount, status) ==
  [id |-> NextId(table), user_id |-> u, amount |-> amount, status |-> status]

\* handleDeposit(data): one awaited insert into deposits with status
\* 'pending' (amount >= 1000 by the form schema), then the toast.
HandleDeposit(u, amount) ==
  /\ u \in authUsers
  /\ issued.deposits < MaxReq
  /\ IF RlsAllows("deposits", "INSERT", u, u)
     THEN /\ deposits' = Append(deposits,
                                RequestRow("deposits", u, amount, "pending"))
          /\ last' = Outcome("handleDeposit", u, NULL, amount,
                             "Deposit Request Submitted")
     ELSE /\ last' = Outcome("handleDeposit", u, NULL, amount, "Deposit Failed")
          /\ UNCHANGED deposits
  /\ UNCHANGED <<policies, db, dash, refp, withdrawals, wdWallet, wdPc, adm>>
  /\ IssueIds

\* Withdraw page, fetchData(): called by the mount effect and started by
\* handleWithdraw after its toast; it sets loading, and the page shows the
\* spinner until it has ended.  A fetch that starts on an idle page is the
\* page loaded again: its component is constructed with walletData = null.
\* The first awaited SELECT: main_balance FROM wallets, single(), then
\* setWalletData(wallet).  An error is thrown: toast "Error", and the second
\* SELECT is not sent.
FetchWithdrawWallet(u, ok) ==
  /\ u \in authUsers
  /\ wdPc[u] \in {"idle", "refresh"}
  /\ IF ok /\ RlsAllows("wallets", "SELECT", u, u)
     THEN /\ wdWallet' =
               [wdWallet EXCEPT ![u] =
                  Some([main_balance |-> wallets[u].main_balance])]
          /\ wdPc' = [wdPc EXCEPT ![u] = "fetch_withdrawals"]
          /\ UNCHANGED last
     ELSE /\ wdWallet' = [wdWallet EXCEPT ![u] =
                            IF wdPc[u] = "idle" THEN Null ELSE @]
          /\ wdPc' = [wdPc EXCEPT ![u] = "idle"]
          /\ last' = Outcome("fetchData", u, NULL, 0, "Error")
  /\ UNCHANGED <<policies, db, dash, refp, deposits, withdrawals, adm>>
  /\ UNCHANGED issued

\* The second awaited SELECT: the user's withdrawals rows, then
\* setLoading(false).  An error is thrown after the wallet copy was stored.
FetchWithdrawList(u, ok) ==
  /\ wdPc[u] = "fetch_withdrawals"
  /\ wdPc' = [wdPc EXCEPT ![u] = "idle"]
  /\ IF ok /\ RlsAllows("withdrawals", "SELECT", u, u)
     THEN UNCHANGED last
     ELSE last' = Outcome("fetchData", u, NULL, 0, "Error")
  /\ UNCHANGED <<policies, db, dash, refp, deposits, withdrawals, wdWallet, adm>>
  /\ UNCHANGED issued

\* The guard of handleWithdraw: !walletData || amount > walletData.main_balance.
InsufficientBalance_Never(w, amount) == FALSE

InsufficientBalance(w, amount) ==
  w = Null \/ amount > w[1].main_balance

\* handleWithdraw(data): the guard on the page's wallet copy, then one
\* awaited insert into withdrawals with status 'pending' and the toast.  The
\* fetchData() it then starts sets loading: the page keeps its copy and
\* shows the spinner until that fetch has ended.
HandleWithdraw_HoldsFunds(u, amount) ==
  /\ u \in authUsers
  /\ wdPc[u] = "idle"
  /\ IF InsufficientBalance(wdWallet[u], amount)
     THEN /\ last' = Outcome("handleWithdraw", u, NULL, amount,
                             "Insufficient Balance")
          /\ UNCHANGED <<withdrawals, wdWallet, wdPc, wallets>>
     ELSE /\ issued.withdrawals < MaxReq
          /\ IF RlsAllows("withdrawals", "INSERT", u, u)
             THEN /\ wallets' = [wallets EXCEPT ![u].main_balance = @ - amount]
                  /\ withdrawals' =
                       Append(withdrawals,
                              RequestRow("withdrawals", u, amount, "pending"))
                  /\ UNCHANGED wdWallet
                  /\ wdPc' = [wdPc EXCEPT ![u] = "refresh"]
                  /\ last' = Outcome("handleWithdraw", u, NULL, amount,
                                     "Withdrawal Request Submitted")
             ELSE /\ last' = Outcome("handleWithdraw", u, NULL, amount,
                                     "Withdrawal Failed")
                  /\ UNCHANGED <<withdrawals, wdWallet, wdPc, wallets>>
  /\ UNCHANGED <<policies, authUsers, profiles, transactions, investments,
                 dash, refp, deposits, adm>>
  /\ IssueIds

HandleWithdraw(u, amount) ==
  /\ u \in authUsers
  /\ wdPc[u] = "idle"
  /\ IF InsufficientBalance(wdWallet[u], amount)
     THEN /\ last' = Outcome("handleWithdraw", u, NULL, amount,
                             "Insufficient Balance")
          /\ UNCHANGED <<withdrawals, wdWallet, wdPc>>
     ELSE /\ issued.withdrawals < MaxReq
          /\ IF RlsAllows("withdrawals", "INSERT", u, u)
             THEN /\ withdrawals' =
                       Append(withdrawals,
                              RequestRow("withdrawals", u, amount, "pending"))
                  /\ UNCHANGED wdWallet
                  /\ wdPc' = [wdPc EXCEPT ![u] = "refresh"]
                  /\ last' = Outcome("handleWithdraw", u, NULL, amount,
                                     "Withdrawal Request Submitted")
             ELSE /\ last' = Outcome("handleWithdraw", u, NULL, amount,
                                     "Withdrawal Failed")
                  /\ UNCHANGED <<withdrawals, wdWallet, wdPc>>
  /\ UNCHANGED <<policies, db, dash, refp, deposits, adm>>
  /\ IssueIds

\* An insert into deposits or withdrawals sent with a user's session, with
\* the column values of the caller's choice: the policies' WITH CHECK tests
\* user_id only.
ClientInsertRequest(caller, table, owner, amount, status) ==
  /\ caller \in authUsers /\ owner \in authUsers
  /\ table \in {"deposits", "withdrawals"}
  /\ status \in (IF table = "deposits" THEN DepositStatuses
                                       ELSE WithdrawalStatuses)
  /\ issued.deposits < MaxReq /\ issued.withdrawals < MaxReq
  /\ LET allowed == RlsAllows(table, "INSERT", caller, owner)
     IN /\ deposits' =
             IF allowed /\ table = "deposits"
             THEN Append(deposits, RequestRow("deposits", owner, amount, status))
             ELSE deposits
        /\ withdrawals' =
             IF allowed /\ table = "withdrawals"
             THEN Append(withdrawals,
                         RequestRow("withdrawals", owner, amount, status))
             ELSE withdrawals
        /\ last' = [op |-> "ClientInsertRequest", user |-> caller,
                    table |-> table, cmd |-> "INSERT", owners |-> {owner},
                    result |-> IF allowed THEN "allowed" ELSE "denied"]
  /\ UNCHANGED <<policies, db, dash, refp, wdWallet, wdPc, adm>>
  /\ IssueIds

\* An update of the status column of deposits or withdrawals sent with a
\* user's session: there is no UPDATE policy on either table.
ClientUpdateStatus(caller, table, id, status) ==
  /\ caller \in authUsers
  /\ table \in {"deposits", "withdrawals"}
  /\ id \in (IF table = "deposits" THEN DOMAIN deposits
                                   ELSE DOMAIN withdrawals)
  /\ status \in (IF table = "deposits" THEN DepositStatuses
                                       ELSE WithdrawalStatuses)
  /\ LET owner == IF table = "deposits" THEN deposits[id].user_id
                                        ELSE withdrawals[id].user_id
         allowed == RlsAllows(table, "UPDATE", caller, owner)
     IN /\ deposits' =
             IF allowed /\ table = "deposits"
             THEN [deposits EXCEPT ![id].status = status]
             ELSE deposits
        /\ withdrawals' =
             IF allowed /\ table = "withdrawals"
             THEN [withdrawals EXCEPT ![id].status = status]
             ELSE withdrawals
        /\ last' = [op |-> "ClientUpdateStatus", user |-> caller,
                    table |-> table, cmd |-> "UPDATE", owners |-> {owner},
                    result |-> IF allowed THEN "allowed" ELSE "denied"]
  /\ UNCHANGED <<policies, db, dash, refp, wdWallet, wdPc, adm>>
  /\ UNCHANGED issued

\* ------------------------------------------------------ service statements
\* Statements outside the pages (service role, which row-level security does
\* not restrict) on the columns that no page writes.
Durations == {180, 365}

\* UPDATE investment_packages SET duration_days = days WHERE package_type = p.
SetPackageDuration(p, days) ==
  /\ p \in DOMAIN packages
  /\ packages' = [packages EXCEPT ![p].duration_days = days]
  /\ last' = Outcome("SetPackageDuration", NULL, NULL, days, "ok")
  /\ UNCHANGED <<policies, db, dash, refp, reqs, referrals>>
  /\ UNCHANGED issued

\* UPDATE deposits SET status = status WHERE id = id.  No trigger is defined
\* on deposits.
SetDepositStatus(id, status) ==
  /\ id \in DOMAIN deposits
  /\ status \in DepositStatuses
  /\ deposits' = [deposits EXCEPT ![id].status = status]
  /\ last' = Outcome("SetDepositStatus", deposits[id].user_id, NULL,
                     deposits[id].amount, status)
  /\ UNCHANGED <<policies, db, dash, refp, withdrawals, wdWallet, wdPc, adm>>
  /\ UNCHANGED issued

\* INSERT INTO referrals (referrer_id, referred_id): both reference
\* auth.users, the pair is UNIQUE, the two accumulators default to 0.00.
InsertReferral(referrer, referred) ==
  /\ Len(referrals) < MaxReq
  /\ IF /\ referrer \in authUsers /\ referred \in authUsers
        /\ \A i \in DOMAIN referrals :
             ~(referrals[i].referrer_id = referrer
                 /\ referrals[i].referred_id = referred)
     THEN /\ referrals' = Append(referrals,
                 [referrer_id |-> referrer, referred_id |-> referred,
                  commission_amount |-> 0, total_deposits |-> 0])
          /\ last' = Outcome("InsertReferral", referrer, NULL, 0, "ok")
     ELSE /\ last' = Outcome("InsertReferral", referrer, NULL, 0, "error")
          /\ UNCHANGED referrals
  /\ UNCHANGED <<policies, db, dash, refp, reqs, packages>>
  /\ UNCHANGED issued

\* DELETE FROM auth.users WHERE id = u (the account is removed): the rows of
\* profiles, wallets, deposits, withdrawals, investments, transactions and
\* referrals that reference the user go with it (ON DELETE CASCADE).
\* profiles.referred_by, which references profiles without a cascade, is
\* written by no statement of the model and is NULL in every row.
DeleteUser(u) ==
  /\ u \in authUsers
  /\ authUsers' = authUsers \ {u}
  /\ profiles' = [x \in DOMAIN profiles \ {u} |-> profiles[x]]
  /\ wallets' = [x \in DOMAIN wallets \ {u} |-> wallets[x]]
  /\ transactions' = SelectSeq(transactions, LAMBDA r : r.user_id # u)
  /\ investments' = SelectSeq(investments, LAMBDA r : r.user_id # u)
  /\ deposits' = SelectSeq(deposits, LAMBDA r : r.user_id # u)
  /\ withdrawals' = SelectSeq(withdrawals, LAMBDA r : r.user_id # u)
  /\ referrals' = SelectSeq(referrals,
                      LAMBDA r : r.referrer_id # u /\ r.referred_id # u)
  /\ last' = Outcome("DeleteUser", u, NULL, 0, "ok")
  /\ UNCHANGED <<policies, dash, refp, wdWallet, wdPc, packages>>
  /\ UNCHANGED issued

\* UPDATE transactions SET amount = amount WHERE id = (the id of row i), as
\* the service role: no constraint and no trigger stands in the way (the
\* trigger on_transaction_created is AFTER INSERT only).
UpdateTransaction(i, amount) ==
  /\ i \in DOMAIN transactions
  /\ transactions' = [transactions EXCEPT ![i].amount = amount]
  /\ last' = Outcome("UpdateTransaction", transactions[i].user_id,
                     transactions[i].type, amount, "ok")
  /\ UNCHANGED <<policies, reqs, adm, authUsers, profiles, wallets,
                 investments, dash, refp>>
  /\ UNCHANGED issued

\* DELETE FROM transactions WHERE id = (the id of row i), as the service
\* role.
DeleteTransaction(i) ==
  /\ i \in DOMAIN transactions
  /\ transactions' = [k \in 1..(Len(transactions) - 1) |->
                        IF k < i THEN transactions[k] ELSE transactions[k + 1]]
  /\ last' = Outcome("DeleteTransaction", transactions[i].user_id,
                     transactions[i].type, transactions[i].amount, "ok")
  /\ UNCHANGED <<policies, reqs, adm, authUsers, profiles, wallets,
                 investments, dash, refp>>
  /\ UNCHANGED issued

\* ------------------------------------------------------ client statements
\* A statement sent with a user's session (supabase.from(table)....), as the
\* pages send them, decided by the row-level security of the migration.
Tables ==
  {"profiles", "wallets", "deposits", "withdrawals", "investments",
   "transactions", "referrals", "investment_packages"}

Commands == {"SELECT", "INSERT", "UPDATE", "DELETE"}

\* The users named by the owner columns of a row: user_id; for referrals
\* referrer_id and referred_id; investment_packages has no owner column.
RowOwners(table) ==
  CASE table = "investment_packages" -> {{}}
    [] table = "referrals" -> {{a, b} : a \in authUsers, b \in authUsers}
    [] OTHER -> {{u} : u \in authUsers}

\* The column that an UPDATE of the model sets (an INSERT sends the amount),
\* and the values it sends.
Columns(table) ==
  CASE table = "wallets" -> BalanceFields
    [] table = "profiles" -> {"full_name"}
    [] OTHER -> {"amount"}

Values(table) == IF table = "profiles" THEN {"Name"} ELSE PageAmounts

\* The owners of the rows that a table holds.
Owned(rows) == {{rows[i].user_id} : i \in DOMAIN rows}

Existing(table) ==
  CASE table = "profiles" -> {{u} : u \in DOMAIN profiles}
    [] table = "wallets" -> {{u} : u \in DOMAIN wallets}
    [] table = "deposits" -> Owned(deposits)
    [] table = "withdrawals" -> Owned(withdrawals)
    [] table = "investments" -> Owned(investments)
    [] table = "transactions" -> Owned(transactions)
    [] table = "referrals" ->
         {{referrals[i].referrer_id, referrals[i].referred_id} :
            i \in DOMAIN referrals}
    [] OTHER -> {{}}

\* UPDATE and DELETE on the rows of `owners`, in a table keyed by user_id
\* (profiles, wallets: UNIQUE(user_id)) and in a table in insertion order.
UpdateKeyed(rows, owners, column, value) ==
  [u \in DOMAIN rows |->
     IF {u} = owners THEN [rows[u] EXCEPT ![column] = value] ELSE rows[u]]

DeleteKeyed(rows, owners) == [u \in DOMAIN rows \ owners |-> rows[u]]

UpdateRows(rows, owners, column, value) ==
  [i \in DOMAIN rows |->
     IF {rows[i].user_id} = owners
     THEN [rows[i] EXCEPT ![column] = value] ELSE rows[i]]

DeleteRows(rows, owners) == SelectSeq(rows, LAMBDA r : {r.user_id} # owners)

\* One statement of `caller` on the rows of `table` whose owners are `owners`
\* (.eq('user_id', ...)).  A policy admits a row when it admits one of its
\* owner columns.  SELECT, UPDATE and DELETE see the admitted rows only: a
\* statement on a row that no policy admits finds no row and returns no
\* error.  An INSERT that WITH CHECK does not admit fails; an admitted one
\* stores the row with the caller's values (profiles and wallets:
\* UNIQUE(user_id), and a registered caller has both rows).  An admitted
\* UPDATE sets the column to the caller's value.  No policy of the migration
\* admits a write on referrals or investment_packages.
ClientRequest(caller, table, cmd, owners, column, value) ==
  /\ caller \in authUsers
  /\ table \in Tables /\ cmd \in Commands
  /\ owners \in RowOwners(table)
  /\ column \in Columns(table) /\ value \in Values(table)
  /\ cmd = "INSERT" =>
       issued.investments + issued.deposits + issued.withdrawals < MaxRows
  /\ LET admitted == IF owners = {}
                     THEN RlsAllows(table, cmd, caller, NULL)
                     ELSE \E o \in owners : RlsAllows(table, cmd, caller, o)
         found == admitted /\ owners \in Existing(table)
         owner == CHOOSE o \in owners : TRUE
         hit(t, c) ==
           table = t /\ cmd = c /\ (IF c = "INSERT" THEN admitted ELSE found)
         Keyed(rows, t) ==
           CASE hit(t, "UPDATE") -> UpdateKeyed(rows, owners, column, value)
             [] hit(t, "DELETE") -> DeleteKeyed(rows, owners)
             [] OTHER -> rows
         Listed(rows, t, new) ==
           CASE hit(t, "INSERT") -> Append(rows, new)
             [] hit(t, "UPDATE") -> UpdateRows(rows, owners, column, value)
             [] hit(t, "DELETE") -> DeleteRows(rows, owners)
             [] OTHER -> rows
     IN /\ profiles' = Keyed(profiles, "profiles")
        /\ IF hit("transactions", "INSERT")
           THEN on_transaction_created(
                  TxRow(owner, "deposit", value, 0, 0, value))
           ELSE /\ wallets' = Keyed(wallets, "wallets")
                /\ transactions' = Listed(transactions, "transactions", <<>>)
        /\ investments' =
             Listed(investments, "investments",
                    [id |-> NextId("investments"), user_id |-> owner,
                     package_id |-> "lite", amount |-> value,
                     expected_return |-> value * packages["lite"].multiplier,
                     end_days |-> 365, status |-> "active"])
        /\ deposits' =
             Listed(deposits, "deposits",
                    RequestRow("deposits", owner, value, "pending"))
        /\ withdrawals' =
             Listed(withdrawals, "withdrawals",
                    RequestRow("withdrawals", owner, value, "pending"))
        /\ last' = [op |-> "ClientRequest", user |-> caller, table |-> table,
                    cmd |-> cmd, owners |-> owners,
                    result |->
                      IF cmd = "INSERT"
                      THEN IF ~admitted THEN "denied"
                           ELSE IF table \in {"profiles", "wallets"}
                           THEN "duplicate" ELSE "created"
                      ELSE IF found THEN "rows" ELSE "no rows"]
  /\ UNCHANGED <<policies, authUsers, referrals, packages, wdWallet, wdPc,
                 dash, refp>>
  /\ IssueIds

\* ---------------------------------------------------------- specifications
\* The pages of the client users next to inserts into their ledger.
Next ==
  \/ \E u \in ClientUsers : SignUp(u)
  \/ \E u \in ClientUsers, t \in TransactionTypes, a \in PageAmounts :
        InsertTransaction(u, t, a, StoredBefore(u), StoredAfter(u, t, a))
  \/ \E u \in ClientUsers, ok \in BOOLEAN : FetchDashboardWallet(u, ok)
  \/ \E u \in ClientUsers : FetchDashboardLists(u)
  \/ \E u \in ClientUsers, p \in PackageIds : HandleInvest(u, p)
  \/ \E u \in ClientUsers : InvestInsertTransaction(u)
  \/ \E u \in ClientUsers, ok \in BOOLEAN : FetchReferralProfile(u, ok)
  \/ \E u \in ClientUsers, ok \in BOOLEAN : FetchReferralWallet(u, ok)
  \/ \E u \in ClientUsers, ok \in BOOLEAN : FetchReferralList(u, ok)
  \/ \E u \in ClientUsers : TransferReferralBonus(u)

Spec == Init /\ [][Next]_vars

\* The ledger alone: registrations and transactions inserts of every user.
NextLedger ==
  \/ \E u \in Users : SignUp(u)
  \/ \E u \in Users, t \in TransactionTypes, a \in Amounts :
        InsertTransaction(u, t, a, StoredBefore(u), StoredAfter(u, t, a))

SpecLedger == Init /\ [][NextLedger]_vars

\* Account provisioning: registrations, two of them of identities whose
\* referral codes coincide, next to inserts into the registered ledgers.
NextProvision ==
  \/ \E u \in Registrants : SignUp(u)
  \/ \E u \in Registrants, t \in TransactionTypes, a \in PageAmounts :
        InsertTransaction(u, t, a, StoredBefore(u), StoredAfter(u, t, a))

SpecProvision == Init /\ [][NextProvision]_vars

\* Inserts with the snapshot values of the caller's choice.
LifecycleTypes == {"deposit", "referral_commission"}

NextSnapshots ==
  \/ \E u \in ClientUsers : SignUp(u)
  \/ \E u \in ClientUsers, t \in LifecycleTypes, a \in PageAmounts,
        before \in Snapshots, after \in Snapshots :
        InsertTransaction(u, t, a, before, after)

SpecSnapshots == Init /\ [][NextSnapshots]_vars

\* The database as a user's session reaches it: registrations, removals of
\* the other user's account, deposits into the ledger of the other user,
\* referral rows of the other user, and the statements of the client user
\* on every table and every owner (an UPDATE of wallets sets main_balance).
ApiTypes == {"deposit"}
ApiColumns == {"full_name", "main_balance", "amount"}

NextApi ==
  \/ \E u \in Users : SignUp(u)
  \/ \E u \in Users \ ClientUsers : DeleteUser(u)
  \/ \E u \in Users \ ClientUsers, t \in ApiTypes, a \in PageAmounts :
        /\ issued.transactions < MaxRows
        /\ InsertTransaction(u, t, a, StoredBefore(u), StoredAfter(u, t, a))
  \/ \E a \in Users \ ClientUsers, b \in Users :
        /\ Len(referrals) < MaxRows
        /\ InsertReferral(a, b)
  \/ \E caller \in ClientUsers, table \in Tables, cmd \in Commands,
        owners \in SUBSET Users :
        \E column \in Columns(table) \cap ApiColumns, value \in Values(table) :
          ClientRequest(caller, table, cmd, owners, column, value)

SpecApi == Init /\ [][NextApi]_vars

\* The wallet of a client user as the trigger and the user's session write
\* it: inserts into the user's ledger and the user's UPDATE of each balance
\* column of the own wallets row.
NextWallets ==
  \/ \E u \in ClientUsers : SignUp(u)
  \/ \E u \in ClientUsers, t \in TransactionTypes, a \in PageAmounts :
        InsertTransaction(u, t, a, StoredBefore(u), StoredAfter(u, t, a))
  \/ \E u \in ClientUsers, column \in BalanceFields, value \in PageAmounts :
        ClientRequest(u, "wallets", "UPDATE", {u}, column, value)

SpecWallets == Init /\ [][NextWallets]_vars

\* The transactions table as every role reaches it: inserts, the updates
\* and deletes of the service role, removals of accounts, and the updates
\* and deletes that the client user sends.
MaxBalance == 20000

NextService ==
  \/ \E u \in Users : SignUp(u)
  \/ \E u \in Users : DeleteUser(u)
  \/ \E u \in Users, t \in ApiTypes, a \in PageAmounts :
        /\ StoredBefore(u) < MaxBalance
        /\ InsertTransaction(u, t, a, StoredBefore(u), StoredAfter(u, t, a))
  \/ \E i \in 1..MaxTx, a \in Amounts : UpdateTransaction(i, a)
  \/ \E i \in 1..MaxTx : DeleteTransaction(i)
  \/ \E caller \in ClientUsers, cmd \in {"UPDATE", "DELETE"},
        owners \in SUBSET Users, value \in PageAmounts :
        ClientRequest(caller, "transactions", cmd, owners, "amount", value)

SpecService == Init /\ [][NextService]_vars

\* The Dashboard of the client users next to changes of the packages table.
NextCatalog ==
  \/ \E u \in ClientUsers : SignUp(u)
  \/ \E u \in ClientUsers, t \in ApiTypes, a \in PageAmounts :
        InsertTransaction(u, t, a, StoredBefore(u), StoredAfter(u, t, a))
  \/ \E p \in PackageIds, days \in Durations : SetPackageDuration(p, days)
  \/ \E u \in ClientUsers, ok \in BOOLEAN : FetchDashboardWallet(u, ok)
  \/ \E u \in ClientUsers : FetchDashboardLists(u)
  \/ \E u \in ClientUsers, p \in PackageIds : HandleInvest(u, p)
  \/ \E u \in ClientUsers : InvestInsertTransaction(u)

SpecCatalog == Init /\ [][NextCatalog]_vars

\* Deposit requests and their processing outside the pages, next to the
\* inserts that credit deposits and commissions.
NextLifecycle ==
  \/ \E u \in Users : SignUp(u)
  \/ \E u \in ClientUsers, a \in PageAmounts : HandleDeposit(u, a)
  \/ \E id \in 1..MaxReq, st \in DepositStatuses : SetDepositStatus(id, st)
  \/ \E u \in ClientUsers, t \in LifecycleTypes, a \in PageAmounts :
        InsertTransaction(u, t, a, StoredBefore(u), StoredAfter(u, t, a))
  \/ \E a, b \in Users : InsertReferral(a, b)

SpecLifecycle == Init /\ [][NextLifecycle]_vars

\* The Deposit and Withdraw pages of the client users, next to the inserts
\* and status updates that the users' sessions can send to the two tables.
NextRequests ==
  \/ \E u \in ClientUsers : SignUp(u)
  \/ \E u \in ClientUsers, t \in ApiTypes, a \in PageAmounts :
        InsertTransaction(u, t, a, StoredBefore(u), StoredAfter(u, t, a))
  \/ \E u \in ClientUsers, a \in PageAmounts : HandleDeposit(u, a)
  \/ \E u \in ClientUsers, ok \in BOOLEAN : FetchWithdrawWallet(u, ok)
  \/ \E u \in ClientUsers, ok \in BOOLEAN : FetchWithdrawList(u, ok)
  \/ \E u \in ClientUsers, a \in PageAmounts : HandleWithdraw(u, a)
  \/ \E caller \in ClientUsers, table \in Tables, owner \in ClientUsers,
        a \in PageAmounts, st \in DepositStatuses \cup WithdrawalStatuses :
        ClientInsertRequest(caller, table, owner, a, st)
  \/ \E caller \in ClientUsers, table \in Tables, id \in 1..MaxReq,
        st \in DepositStatuses \cup WithdrawalStatuses :
        ClientUpdateStatus(caller, table, id, st)

SpecRequests == Init /\ [][NextRequests]_vars

\* The Deposit and Withdraw pages alone.
NextForms ==
  \/ \E u \in ClientUsers : SignUp(u)
  \/ \E u \in ClientUsers, t \in ApiTypes, a \in PageAmounts :
        InsertTransaction(u, t, a, StoredBefore(u), StoredAfter(u, t, a))
  \/ \E u \in ClientUsers, a \in PageAmounts : HandleDeposit(u, a)
  \/ \E u \in ClientUsers, ok \in BOOLEAN : FetchWithdrawWallet(u, ok)
  \/ \E u \in ClientUsers, ok \in BOOLEAN : FetchWithdrawList(u, ok)
  \/ \E u \in ClientUsers, a \in PageAmounts : HandleWithdraw(u, a)

SpecForms == Init /\ [][NextForms]_vars

\* The three pages that guard a write by the page's wallet copy.  The
\* inserts that run next to the pages are bounded on their own: each guard
\* needs one credit to pass and none to fail.
MaxCredits == 2

NextGuards ==
  \/ \E u \in ClientUsers : SignUp(u)
  \/ \E u \in ClientUsers, t \in LifecycleTypes, a \in PageAmounts :
        /\ Len(transactions) < MaxCredits
        /\ InsertTransaction(u, t, a, StoredBefore(u), StoredAfter(u, t, a))
  \/ \E u \in ClientUsers, ok \in BOOLEAN : FetchDashboardWallet(u, ok)
  \/ \E u \in ClientUsers : FetchDashboardLists(u)
  \/ \E u \in ClientUsers, p \in PackageIds : HandleInvest(u, p)
  \/ \E u \in ClientUsers : InvestInsertTransaction(u)
  \/ \E u \in ClientUsers, ok \in BOOLEAN : FetchReferralProfile(u, ok)
  \/ \E u \in ClientUsers, ok \in BOOLEAN : FetchReferralWallet(u, ok)
  \/ \E u \in ClientUsers, ok \in BOOLEAN : FetchReferralList(u, ok)
  \/ \E u \in ClientUsers : TransferReferralBonus(u)
  \/ \E u \in ClientUsers, ok \in BOOLEAN : FetchWithdrawWallet(u, ok)
  \/ \E u \in ClientUsers, ok \in BOOLEAN : FetchWithdrawList(u, ok)
  \/ \E u \in ClientUsers, a \in PageAmounts : HandleWithdraw(u, a)

SpecGuards == Init /\ [][NextGuards]_vars

\* ------------------------------------------------------ the ledger's claims
\* Delta table of the specification (section 4.1): sign of the amount that
\* a transaction kind contributes to a balance field.
DeltaSign(type, field) ==
  CASE field = "main_balance" ->
         (CASE type \in {"deposit", "profit", "referral_bonus_transfer"} -> 1
            [] type \in {"withdrawal", "investment"} -> -1
            [] OTHER -> 0)
    [] field = "referral_bonus_balance" ->
         (CASE type = "referral_commission" -> 1
            [] type = "referral_bonus_transfer" -> -1
            [] OTHER -> 0)
    [] field = "total_invested" -> (IF type = "investment" THEN 1 ELSE 0)
    [] field = "total_profits" -> (IF type = "profit" THEN 1 ELSE 0)
    [] OTHER -> 0

\* Signed sum of the first n transactions rows of user u for a balance field.
RECURSIVE LedgerSum(_, _, _)
LedgerSum(u, field, n) ==
  IF n = 0 THEN 0
  ELSE LedgerSum(u, field, n - 1)
         + (IF transactions[n].user_id = u
            THEN DeltaSign(transactions[n].type, field) * transactions[n].amount
            ELSE 0)

Ledger(u, field) == LedgerSum(u, field, Len(transactions))

\* No page handler is between two of its writes (handleInvest after its
\* investments insert or its transactions insert, transferReferralBonus
\* after its transactions insert).
Quiescent ==
  \A u \in Users :
    dashPc[u] \notin {"transaction", "wallet"} /\ refPc[u] # "wallet"

\* The wallet that the delta table prescribes after one transaction.
TableDelta(w, type, amount) ==
  [f \in BalanceFields |-> w[f] + DeltaSign(type, f) * amount]

\* The step appends a transactions row.
RowAdded == Len(transactions') = Len(transactions) + 1
NewRow == transactions'[Len(transactions')]

\* C1: whatever inserts into transactions (with their trigger), purchases
\* of handleInvest and transfers of transferReferralBonus have run, in
\* whatever interleaving, once no handler is between two of its writes each
\* user's main_balance is the signed sum of the user's transactions
\* (+deposit, -withdrawal, -investment, +profit, +referral_bonus_transfer).
C1_MainBalanceIsLedgerSum ==
  Quiescent =>
    \A u \in DOMAIN wallets :
      wallets[u].main_balance = Ledger(u, "main_balance")

C1_Witness ==
  /\ Quiescent
  /\ last.op = "handleInvest" /\ last.result = "Investment Failed"
  /\ Len(investments) > 0
  /\ Len(transactions) >= 2
  /\ \E i, j \in DOMAIN transactions :
       transactions[i].type = "deposit" /\ transactions[j].type = "withdrawal"
  /\ wallets[last.user].main_balance > 0

\* C2: in every state each user's referral_bonus_balance is the sum of the
\* user's referral_commission amounts minus the sum of the user's
\* referral_bonus_transfer amounts.
C2_ReferralBonusIsLedgerSum ==
  \A u \in DOMAIN wallets :
    wallets[u].referral_bonus_balance = Ledger(u, "referral_bonus_balance")

\* C3: in every state total_invested is the sum of the user's investment
\* amounts and total_profits the sum of the user's profit amounts.
C3_TotalsAreLedgerSums ==
  \A u \in DOMAIN wallets :
    /\ wallets[u].total_invested = Ledger(u, "total_invested")
    /\ wallets[u].total_profits = Ledger(u, "total_profits")

\* C4: an insert into transactions for a registered user records the row
\* and changes the owner's wallet by exactly the delta the table gives for
\* the kind, for each of the six kinds, and leaves the fields the table
\* does not list unchanged.
C4_InsertAppliesTableDelta ==
  [][(last'.op = "InsertTransaction" /\ last'.type # NULL
        /\ last'.user \in DOMAIN wallets) =>
       /\ RowAdded
       /\ NewRow.type = last'.type /\ NewRow.amount = last'.amount
       /\ wallets'[last'.user] =
            TableDelta(wallets[last'.user], last'.type, last'.amount)]_vars

\* C5: in every state, also between two database calls of a handler and
\* after a failed call, the four balances of every wallet are those of the
\* transactions rows that exist: no row without its delta, no delta without
\* its row.
C5_RowAndDeltaAreOneUnit ==
  \A u \in DOMAIN wallets :
    \A f \in BalanceFields : wallets[u][f] = Ledger(u, f)

\* C6: no step records a withdrawal or an investment whose amount exceeds the
\* stored main_balance, or a referral_bonus_transfer whose amount exceeds the
\* stored referral_bonus_balance (the insert fails, tables unchanged).
C6_OverdraftIsRejected ==
  [][RowAdded =>
       /\ NewRow.type \in {"withdrawal", "investment"}
            => NewRow.amount <= wallets[NewRow.user_id].main_balance
       /\ NewRow.type = "referral_bonus_transfer"
            => NewRow.amount <= wallets[NewRow.user_id].referral_bonus_balance]_vars

\* C7: of two withdrawals of one user recorded back to back (the serial order
\* of two concurrent inserts), each affordable from the balance before the
\* first but not both, only one is recorded; main_balance is never left
\* negative by them.
C7_OneOfTwoWithdrawalsFails ==
  \A i \in 1..(Len(transactions) - 1) :
    LET r1 == transactions[i]
        r2 == transactions[i + 1]
    IN ~ /\ r1.type = "withdrawal" /\ r2.type = "withdrawal"
         /\ r1.user_id = r2.user_id
         /\ r1.amount > 0 /\ r2.amount > 0
         /\ r1.amount <= r1.balance_before
         /\ r2.amount <= r1.balance_before
         /\ r1.amount + r2.amount > r1.balance_before

\* C8: no transactions row has an amount <= 0 (such an insert fails and
\* changes nothing).
C8_NonPositiveAmountIsRejected ==
  \A i \in 1..Len(transactions) : transactions[i].amount > 0

\* C9: an insert for a user id without a wallet fails and adds no row: every
\* transactions row belongs to a user that has a wallet.
C9_NoRowWithoutWallet ==
  /\ \A i \in 1..Len(transactions) : transactions[i].user_id \in DOMAIN wallets
  /\ (last.op = "InsertTransaction" /\ last.user \notin DOMAIN wallets)
       => last.result \in {"foreign_key_violation", "invalid_input_value"}

C9_Witness ==
  /\ last.op = "InsertTransaction"
  /\ last.user \notin DOMAIN wallets
  /\ last.result = "foreign_key_violation"
  /\ Len(transactions) > 0

\* ---------------------------------------------- purchases and provisioning
\* Transactions rows of kind investment that reference investment row k.
PairedRows(k) ==
  {i \in 1..Len(transactions) :
     /\ transactions[i].type = "investment"
     /\ transactions[i].reference_id = investments[k].id}

\* C11: once every started handler has finished (also one that failed), each
\* investments row has exactly one investment transaction referencing it, and
\* each investment transaction that carries a reference references an
\* investments row of its user: no purchase leaves one without the other.
C11_PurchaseIsAllOrNothing ==
  Quiescent =>
    /\ \A k \in 1..Len(investments) : Cardinality(PairedRows(k)) = 1
    /\ \A i \in 1..Len(transactions) :
         (transactions[i].type = "investment" /\ transactions[i].reference_id # 0)
           => \E k \in 1..Len(investments) :
                /\ investments[k].id = transactions[i].reference_id
                /\ investments[k].user_id = transactions[i].user_id

\* C12: in every state the users with a profile are the users with a wallet
\* (and the registered users), and a step that provisions a user creates the
\* user's profile and wallet together, the wallet with four zero balances.
C12_ProfileAndWalletTogether ==
  /\ [](DOMAIN profiles = DOMAIN wallets /\ DOMAIN wallets = authUsers)
  /\ [][\A u \in Registrants :
          (u \in DOMAIN wallets' \ DOMAIN wallets
             \/ u \in DOMAIN profiles' \ DOMAIN profiles)
            => /\ u \in DOMAIN profiles' /\ u \in DOMAIN wallets'
               /\ profiles'[u].user_id = u
               /\ wallets'[u].main_balance = 0
               /\ wallets'[u].referral_bonus_balance = 0
               /\ wallets'[u].total_invested = 0
               /\ wallets'[u].total_profits = 0]_vars

C12_Witness ==
  /\ last.op = "SignUp" /\ last.result = "ok"
  /\ Cardinality(authUsers) = 2
  /\ Len(transactions) > 0
  /\ wallets[last.user].main_balance = 0

\* C13: provisioning a user id that is already provisioned fails as a
\* duplicate and leaves the profiles and the wallets as they were.
C13_SecondProvisioningFails ==
  [][(last'.op = "SignUp" /\ last'.user \in authUsers)
       => /\ last'.result = "duplicate_user_id"
          /\ authUsers' = authUsers
          /\ profiles' = profiles
          /\ wallets' = wallets]_vars

C13_Witness ==
  /\ last.op = "SignUp" /\ last.result = "duplicate_user_id"
  /\ last.user \in authUsers
  /\ wallets[last.user].main_balance # 0

\* C14: the registration of a user id that is not yet provisioned succeeds,
\* whatever referral codes exist already (a colliding code is replaced by a
\* retry), and the referral codes of the profiles are pairwise distinct.
C14_CollisionIsRetried ==
  [][(last'.op = "SignUp" /\ last'.user \notin authUsers)
       => /\ last'.result = "ok"
          /\ last'.user \in DOMAIN profiles'
          /\ \A x, y \in DOMAIN profiles' :
               x # y => profiles'[x].referral_code # profiles'[y].referral_code]_vars

\* ------------------------------------------------- snapshots and frame
\* The balance that a kind moves first: referral_bonus_balance for a
\* referral_commission, main_balance for every other kind.
RelevantField(type) ==
  IF type = "referral_commission" THEN "referral_bonus_balance"
  ELSE "main_balance"

\* C15: every transactions row that is recorded stores as balance_before the
\* owner's relevant balance held by the wallets table when the row is
\* inserted, and as balance_after that value plus the kind's delta; a value
\* held by the caller that differs from the wallet is never stored.
C15_SnapshotIsTheStoredBalance ==
  [][RowAdded =>
       /\ NewRow.balance_before =
            wallets[NewRow.user_id][RelevantField(NewRow.type)]
       /\ NewRow.balance_after =
            NewRow.balance_before
              + DeltaSign(NewRow.type, RelevantField(NewRow.type))
                  * NewRow.amount]_vars

\* C16: a step that records one transaction for user u adds that one row to
\* the log, changes u's wallet row (for a non-zero amount) and no other
\* wallet row, and leaves profiles, deposits, withdrawals, investments,
\* referrals and the registered users as they were.
C16_OneRowOneWallet ==
  [][RowAdded =>
       /\ SubSeq(transactions', 1, Len(transactions)) = transactions
       /\ DOMAIN wallets' = DOMAIN wallets
       /\ \A v \in DOMAIN wallets \ {NewRow.user_id} : wallets'[v] = wallets[v]
       /\ NewRow.amount # 0 => wallets'[NewRow.user_id] # wallets[NewRow.user_id]
       /\ profiles' = profiles
       /\ investments' = investments
       /\ deposits' = deposits /\ withdrawals' = withdrawals
       /\ referrals' = referrals
       /\ authUsers' = authUsers]_vars

C16_Witness ==
  /\ last.op = "InsertTransaction" /\ last.result = "ok"
  /\ last.amount > 0
  /\ Len(transactions) >= 2
  /\ \E v \in DOMAIN wallets \ {last.user} : wallets[v].main_balance > 0
  /\ wallets[last.user].total_invested > 0

\* C20: a step of transferReferralBonus decides on the stored
\* referral_bonus_balance and moves it in that same step: with a positive
\* stored bonus b it records the transfer's row of amount b, raises
\* main_balance by b and sets referral_bonus_balance to 0; with no stored
\* bonus it changes nothing.  No state has the row without the move.
C20_TransferIsOneConditionalUpdate ==
  [][\A u \in ClientUsers :
       TransferReferralBonus(u) =>
         IF wallets[u].referral_bonus_balance > 0
         THEN /\ RowAdded
              /\ NewRow.type = "referral_bonus_transfer"
              /\ NewRow.amount = wallets[u].referral_bonus_balance
              /\ wallets'[u].main_balance =
                   wallets[u].main_balance + wallets[u].referral_bonus_balance
              /\ wallets'[u].referral_bonus_balance = 0
         ELSE transactions' = transactions /\ wallets' = wallets]_vars

\* ------------------------------------------------------ client statements
\* The rows of a table in insertion order that user c does not own.
NotOf(rows, c) == SelectSeq(rows, LAMBDA r : r.user_id # c)

\* The referrals rows that name user c neither as referrer nor as referred.
NotNaming(rows, c) ==
  SelectSeq(rows, LAMBDA r : r.referrer_id # c /\ r.referred_id # c)

\* The step leaves every row that user c does not own as it was.
OthersUnchanged(c) ==
  /\ DOMAIN profiles' = DOMAIN profiles /\ DOMAIN wallets' = DOMAIN wallets
  /\ \A v \in DOMAIN profiles \ {c} : profiles'[v] = profiles[v]
  /\ \A v \in DOMAIN wallets \ {c} : wallets'[v] = wallets[v]
  /\ NotOf(transactions', c) = NotOf(transactions, c)
  /\ NotOf(investments', c) = NotOf(investments, c)
  /\ NotOf(deposits', c) = NotOf(deposits, c)
  /\ NotOf(withdrawals', c) = NotOf(withdrawals, c)
  /\ NotNaming(referrals', c) = NotNaming(referrals, c)
  /\ packages' = packages

\* C17: a statement of a caller returns, creates or changes rows only if
\* they name the caller in an owner column (referrals: as referrer or as
\* referred) or it is a read of investment_packages, which always returns
\* the rows; and the step of a caller's statement leaves every row of every
\* table that the caller does not own as it was.
C17_RowLevelAuthorization ==
  /\ [](last.op = "ClientRequest" =>
          /\ last.result \in {"rows", "created", "duplicate"} =>
               \/ last.table = "investment_packages" /\ last.cmd = "SELECT"
               \/ last.user \in last.owners
          /\ (last.table = "investment_packages" /\ last.cmd = "SELECT")
               => last.result = "rows")
  /\ [][last'.op = "ClientRequest" => OthersUnchanged(last'.user)]_vars

C17_Witness ==
  /\ last.op = "ClientRequest" /\ last.result = "no rows"
  /\ last.table = "wallets" /\ last.cmd = "UPDATE"
  /\ \E v \in DOMAIN wallets \ {last.user} :
       last.owners = {v} /\ wallets[v].main_balance > 0
  /\ wallets[last.user].main_balance > 0
  /\ Len(investments) > 0 /\ investments[1].user_id = last.user
  /\ profiles[last.user].full_name = "Name"

\* C18: no step changes a field of a transactions row that exists or removes
\* the row: every step leaves the log as it was or extends it.
C18_LogIsAppendOnly ==
  [][/\ Len(transactions') >= Len(transactions)
     /\ SubSeq(transactions', 1, Len(transactions)) = transactions]_vars

\* C19: a step changes the balances of a wallet only if it records a
\* transaction of the wallet's owner, or is the wallets update of a handler
\* of the owner whose transaction has been recorded.
C19_NoBalanceChangeWithoutRow ==
  [][\A u \in DOMAIN wallets :
        (u \in DOMAIN wallets' /\ wallets'[u] # wallets[u]) =>
          \/ RowAdded /\ NewRow.user_id = u
          \/ dashPc[u] = "wallet"
          \/ refPc[u] = "wallet"]_vars

\* ------------------------------------------------- packages and ordering
\* The step appends an investments row.
InvestmentAdded == Len(investments') = Len(investments) + 1
NewInvestment == investments'[Len(investments')]

\* C23: the investments row that a purchase creates ends duration_days of
\* the chosen package after its creation, whatever that package's
\* duration_days is.
C23_EndDateIsPackageDuration ==
  [][InvestmentAdded =>
       NewInvestment.end_days =
         packages[NewInvestment.package_id].duration_days]_vars

\* The trigger applied to the first n transactions rows of user u, the
\* latest row first, starting from a new wallet.
RECURSIVE ApplyLatestFirst(_, _, _)
ApplyLatestFirst(u, n, w) ==
  IF n = 0 THEN w
  ELSE ApplyLatestFirst(u, n - 1,
         IF transactions[n].user_id = u
         THEN update_wallet_balance(w, transactions[n].type,
                                    transactions[n].amount)
         ELSE w)

\* C24: the trigger applied to two transactions in either order gives the
\* same four balances, from every wallet that is reached, and the wallet of
\* every user is the one that the user's transactions give when they are
\* applied in the reverse of their insertion order.
C24_TriggerDeltasCommute ==
  \A u \in DOMAIN wallets :
    /\ \A t1, t2 \in TransactionTypes : \A a1, a2 \in PageAmounts :
         update_wallet_balance(update_wallet_balance(wallets[u], t1, a1), t2, a2)
           = update_wallet_balance(update_wallet_balance(wallets[u], t2, a2), t1, a1)
    /\ wallets[u] = ApplyLatestFirst(u, Len(transactions), NewWallet)

C24_Witness ==
  /\ Len(transactions) >= 2
  /\ transactions[1].user_id = transactions[2].user_id
  /\ transactions[1].type = "deposit" /\ transactions[1].amount > 0
  /\ transactions[2].type = "withdrawal" /\ transactions[2].amount > 0
  /\ last.op = "InsertTransaction" /\ last.result = "ok"

\* C27: under the policies of the migration no step of a page handler adds a
\* transactions row: the inserts of handleInvest and transferReferralBonus
\* are refused and neither handler reaches its wallets update.
C27_UserInsertIsRejected ==
  /\ [](policies = MigrationPolicies =>
          \A u \in Users : dashPc[u] # "wallet" /\ refPc[u] # "wallet")
  /\ [][(policies = MigrationPolicies
           /\ last'.op \in {"handleInvest", "transferReferralBonus"})
          => /\ transactions' = transactions
             /\ last'.result \notin {"transaction created",
                                    "Investment Successful!",
                                    "Transfer Successful!"}]_vars

C27_Witness ==
  /\ policies = MigrationPolicies
  /\ last.op = "handleInvest" /\ last.result = "Investment Failed"
  /\ last.type = "investment"
  /\ Len(investments) > 0

\* ------------------------------------------------ deposits and referrals
\* C21: the step that takes a deposit from pending to confirmed records one
\* deposit transaction of the deposit's amount for its user and raises the
\* user's main_balance by that amount; setting a confirmed deposit to
\* confirmed again changes no wallet; the step from pending to rejected
\* changes no wallet and adds no transaction.
C21_DepositLifecycleAndLedger ==
  [][\A d \in DOMAIN deposits :
       /\ (deposits[d].status = "pending" /\ deposits'[d].status = "confirmed")
            => /\ RowAdded
               /\ NewRow.user_id = deposits[d].user_id
               /\ NewRow.type = "deposit"
               /\ NewRow.amount = deposits[d].amount
               /\ wallets'[deposits[d].user_id].main_balance
                    = wallets[deposits[d].user_id].main_balance
                        + deposits[d].amount
       /\ (last'.op = "SetDepositStatus" /\ deposits[d].status = "confirmed"
             /\ deposits'[d].status = "confirmed")
            => wallets' = wallets
       /\ (deposits[d].status = "pending" /\ deposits'[d].status = "rejected")
            => wallets' = wallets /\ transactions' = transactions]_vars

\* Sum of commission_amount over the first n referrals rows of referrer u.
RECURSIVE CommissionSum(_, _)
CommissionSum(u, n) ==
  IF n = 0 THEN 0
  ELSE CommissionSum(u, n - 1)
         + (IF referrals[n].referrer_id = u
            THEN referrals[n].commission_amount ELSE 0)

\* Sum of the amounts of the referral_commission transactions of user u
\* among the first n rows.
RECURSIVE CommissionPaid(_, _)
CommissionPaid(u, n) ==
  IF n = 0 THEN 0
  ELSE CommissionPaid(u, n - 1)
         + (IF transactions[n].user_id = u
                 /\ transactions[n].type = "referral_commission"
            THEN transactions[n].amount ELSE 0)

\* C22: a commission is accrued as one unit, the referral row's
\* commission_amount and the referrer's referral_commission transaction
\* together: for every referrer the commission_amount of the referrer's
\* referral rows sums to the amounts of the referrer's referral_commission
\* transactions.
C22_CommissionAccrualIsOneUnit ==
  \A u \in authUsers :
    CommissionSum(u, Len(referrals)) = CommissionPaid(u, Len(transactions))

\* ------------------------------------------------------ requests and guards
\* The rows that exist keep their status and a row that is added is pending.
StatusKept(old, new) ==
  /\ Len(new) >= Len(old)
  /\ \A i \in DOMAIN old : new[i].status = old[i].status
  /\ \A i \in DOMAIN new \ DOMAIN old : new[i].status = "pending"

\* C28: no step of a user (the Deposit and Withdraw pages, and the inserts
\* and updates that a user's session can send to the two tables) changes the
\* status of a deposits or withdrawals row that exists, and every row such a
\* step creates has status pending.
C28_UserNeverDecidesStatus ==
  [][StatusKept(deposits, deposits')
       /\ StatusKept(withdrawals, withdrawals')]_vars

\* C29: the step of a submitted deposit request adds exactly one pending row
\* of the user's amount to deposits, the step of a submitted withdrawal
\* request exactly one to withdrawals, and either leaves the other table,
\* every wallet and the transactions table unchanged.
C29_RequestTouchesNoBalance ==
  [][/\ (last'.op = "handleDeposit"
           /\ last'.result = "Deposit Request Submitted"
           /\ (last' # last \/ deposits' # deposits))
          => /\ deposits' = Append(deposits,
                    [id |-> Len(deposits) + 1, user_id |-> last'.user,
                     amount |-> last'.amount, status |-> "pending"])
             /\ withdrawals' = withdrawals
             /\ wallets' = wallets /\ transactions' = transactions
     /\ (last'.op = "handleWithdraw"
           /\ last'.result = "Withdrawal Request Submitted"
           /\ (last' # last \/ withdrawals' # withdrawals))
          => /\ withdrawals' = Append(withdrawals,
                    [id |-> Len(withdrawals) + 1, user_id |-> last'.user,
                     amount |-> last'.amount, status |-> "pending"])
             /\ deposits' = deposits
             /\ wallets' = wallets /\ transactions' = transactions]_vars

C29_Witness ==
  /\ last.op = "handleWithdraw"
  /\ last.result = "Withdrawal Request Submitted"
  /\ Len(withdrawals) > 0 /\ Len(deposits) > 0
  /\ wallets[last.user].main_balance >= last.amount
  /\ last.amount > 0

\* The tables of the database.
Stored == <<db, deposits, withdrawals, packages, referrals>>

\* C30: a handler whose guard fails on the page's wallet copy writes nothing.
\* A step that reports "Insufficient Balance" or "No Bonus Available" leaves
\* every table unchanged; handleInvest adds an investments row only with a
\* copy whose main_balance covers the package's minimum_amount,
\* handleWithdraw a withdrawals row only with a copy whose main_balance
\* covers the amount, and transferReferralBonus a transactions row only
\* with a copy whose referral_bonus_balance is positive.
C30_FailedGuardWritesNothing ==
  [][/\ last'.result \in {"Insufficient Balance", "No Bonus Available"}
          => UNCHANGED Stored
     /\ \A u \in Users :
          /\ (last'.op = "handleInvest" /\ last'.user = u /\ InvestmentAdded)
               => /\ dashWallet[u] # Null
                  /\ dashWallet[u][1].main_balance >= NewInvestment.amount
          /\ (last'.op = "handleWithdraw" /\ last'.user = u
                /\ withdrawals' # withdrawals)
               => /\ wdWallet[u] # Null
                  /\ wdWallet[u][1].main_balance >= last'.amount
          /\ (last'.op = "transferReferralBonus" /\ last'.user = u
                /\ (RowAdded \/ wallets' # wallets))
               => /\ refWallet[u] # Null
                  /\ refWallet[u][1].referral_bonus_balance > 0]_vars

C30_Witness ==
  /\ last.op = "handleWithdraw" /\ last.result = "Insufficient Balance"
  /\ wdWallet[last.user] # Null
  /\ wallets[last.user].main_balance >= last.amount
  /\ withdrawals = <<>>
====
